---- MODULE Spec2Model ----
(***************************************************************************)
(* Model of nem-model/electricity_market_model.py (solve_electricity_market)*)
(* and nem-model/helper_functions.py (validate_bids_against_capacity).      *)
(*                                                                          *)
(* One call of solve_electricity_market is a run of the state machine: the  *)
(* five input tables are fixed in the initial state, and the actions are    *)
(* the consecutive blocks of the function body.  Tables are sequences of    *)
(* row records in file order.  Python dicts whose iteration order the code  *)
(* relies on (next(iter(...))) are sequences of <<key, value>> pairs in     *)
(* insertion order; the other dicts are functions.                          *)
(*                                                                          *)
(* The external LP solver (pulp / CBC) is modelled by what it returns: the  *)
(* status Optimal with any cost-minimal point of the feasible set, or the   *)
(* status Infeasible with values the problem's constraints do not govern.   *)
(* A variable that occurs in no constraint and not in the objective is not  *)
(* a variable of the problem: the solver never assigns it and its value     *)
(* stays None.                                                              *)
(* The problem is a network-flow problem with integer data, so the integer  *)
(* points enumerated here include its optimal vertices.                     *)
(***************************************************************************)
EXTENDS Integers, Sequences, FiniteSets, TLC

VARIABLES
    region_demand_raw,   \* rows (region, demand)
    generators_raw,      \* rows (region, generator_name, nameplate_capacity)
    pricelevel_raw,      \* rows (pricelevel)
    bids_raw,            \* rows (generator_name, pricelevel, bid_capacity)
    interconnector_raw,  \* rows (interconnector_id, region_start, region_end, interconnector_capacity)
    pc,                  \* position in solve_electricity_market
    model,               \* the pulp.LpProblem: variables, objective, constraints
    generators,          \* dict region -> (generator_name -> nameplate_capacity)
    interconnector_capacities, \* ordered dict id -> region_start -> region_end -> capacity
    bids,                \* dict region -> generator -> price_band -> bid_capacity
    status,              \* pulp.LpStatus[model.status] after the solve
    values,              \* the solver's value of every decision variable
    results,             \* the returned dict
    error,               \* the exception that ended the call, if any
    solverCalls          \* number of model.solve() calls made

vars == <<region_demand_raw, generators_raw, pricelevel_raw, bids_raw,
          interconnector_raw, pc, model, generators, interconnector_capacities,
          bids, status, values, results, error, solverCalls>>

inputs == <<region_demand_raw, generators_raw, pricelevel_raw, bids_raw,
            interconnector_raw>>

-----------------------------------------------------------------------------
(* Bounds of the input tables.                                              *)
MaxCap == 1
MaxDemand == 1
MaxFlowCap == 1

RegionNames == {"R1", "R2"}
GeneratorNames == {"G1", "G2"}
PriceLevels == <<1, 2>>

-----------------------------------------------------------------------------
(* Helpers: sequences, sums, ordered dicts.                                 *)

Range(s) == {s[i] : i \in DOMAIN s}

EmptyMap == [k \in {} |-> 0]

RECURSIVE SumSeq(_)
SumSeq(s) == IF s = <<>> THEN 0 ELSE Head(s) + SumSeq(Tail(s))

RECURSIVE SumOver(_, _)
\* Sum of f[x] over the finite set S.
SumOver(S, f) ==
    IF S = {} THEN 0
    ELSE LET x == CHOOSE y \in S : TRUE IN f[x] + SumOver(S \ {x}, f)

RECURSIVE Concat(_)
\* Concatenation of a sequence of sequences.
Concat(ss) == IF ss = <<>> THEN <<>> ELSE Head(ss) \o Concat(Tail(ss))

RECURSIVE Distinct(_)
\* The distinct elements of s in order of first appearance (dict key order).
Distinct(s) ==
    IF s = <<>> THEN <<>>
    ELSE LET init == Distinct(SubSeq(s, 1, Len(s) - 1))
             last == s[Len(s)]
         IN IF last \in Range(init) THEN init ELSE Append(init, last)

\* Ordered dict: a sequence of <<key, value>> pairs, keys unique.
DictKeys(d) == [i \in DOMAIN d |-> d[i][1]]
DictHas(d, k) == \E i \in DOMAIN d : d[i][1] = k
DictGet(d, k) == d[CHOOSE i \in DOMAIN d : d[i][1] = k][2]
DictPut(d, k, v) ==
    IF DictHas(d, k)
    THEN [i \in DOMAIN d |-> IF d[i][1] = k THEN <<k, v>> ELSE d[i]]
    ELSE Append(d, <<k, v>>)
\* next(iter(d.keys()))
FirstKey(d) == d[1][1]

\* LpVariable.varValue: None until the solver assigns a number.
PyNone == <<>>
Num(n) == <<n>>

-----------------------------------------------------------------------------
(* helper_functions.py                                                      *)

\* bids_input.groupby('generator_name')['bid_capacity'].sum():
\* one entry per generator name that occurs in a bid row.
total_bids(bids_input) ==
    [g \in {bids_input[i].generator_name : i \in DOMAIN bids_input} |->
        SumSeq([i \in DOMAIN bids_input |->
                  IF bids_input[i].generator_name = g
                  THEN bids_input[i].bid_capacity ELSE 0])]

\* dict(zip(generator_input['generator_name'], generator_input['nameplate_capacity'])):
\* a later row of the same name overwrites an earlier one.
generator_capacities(generator_input) ==
    [g \in {generator_input[i].generator_name : i \in DOMAIN generator_input} |->
        LET last == CHOOSE i \in DOMAIN generator_input :
                       /\ generator_input[i].generator_name = g
                       /\ \A j \in DOMAIN generator_input :
                             generator_input[j].generator_name = g => j <= i
        IN generator_input[last].nameplate_capacity]

\* A validation that also rejects a bid sum equal to the capacity.
validate_bids_rejecting_equal(generator_input, bids_input) ==
    LET tb == total_bids(bids_input)
        gc == generator_capacities(generator_input)
    IN \A generator \in DOMAIN tb :
          /\ generator \in DOMAIN gc
          /\ tb[generator] < gc[generator]

\* The loop returns False at the first generator of total_bids.index that is
\* unknown or over capacity, and True when there is none.
validate_bids_against_capacity(generator_input, bids_input) ==
    LET tb == total_bids(bids_input)
        gc == generator_capacities(generator_input)
    IN \A generator \in DOMAIN tb :
          /\ generator \in DOMAIN gc
          /\ ~(tb[generator] > gc[generator])

-----------------------------------------------------------------------------
(* electricity_market_model.py: values held before they are assigned.       *)

NoModel == [created |-> FALSE, variables |-> {}, flows |-> EmptyMap,
            objective |-> EmptyMap, constraints |-> <<>>]
\* pulp.LpProblem("Electricity_Market_Dispatch", pulp.LpMinimize)
EmptyProblem == [created |-> TRUE, variables |-> {}, flows |-> EmptyMap,
                 objective |-> EmptyMap, constraints |-> <<>>]
NoValues == [d |-> EmptyMap, f |-> EmptyMap]
NoError == "none"
ValueErrorBids == "ValueError: Bids exceed generator capacity"
KeyErrorRegion == "KeyError: generators[region]"
KeyErrorBid == "KeyError: bids[r][g][p]"

\* regions = list(region_demand_raw['region'])
regions == [i \in DOMAIN region_demand_raw |-> region_demand_raw[i].region]

\* demand = dict(zip(region_demand_raw['region'], region_demand_raw['demand']))
demand ==
    [r \in Range(regions) |->
        LET last == CHOOSE i \in DOMAIN region_demand_raw :
                       /\ region_demand_raw[i].region = r
                       /\ \A j \in DOMAIN region_demand_raw :
                             region_demand_raw[j].region = r => j <= i
        IN region_demand_raw[last].demand]

\* price_bands = list(pricelevel_raw['pricelevel'])
price_bands == pricelevel_raw

\* Lines 32-40: generators[region][generator_name] = nameplate_capacity, row by
\* row; a later row of the same (region, name) overwrites an earlier one.
BuildGenerators(rows) ==
    [r \in {rows[i].region : i \in DOMAIN rows} |->
        [g \in {rows[i].generator_name : i \in {j \in DOMAIN rows : rows[j].region = r}} |->
            LET last == CHOOSE i \in DOMAIN rows :
                           /\ rows[i].region = r /\ rows[i].generator_name = g
                           /\ \A j \in DOMAIN rows :
                                (rows[j].region = r /\ rows[j].generator_name = g) => j <= i
            IN rows[last].nameplate_capacity]]

\* Iteration order of generators[r]: the names in order of their first row.
GenOrder(r) ==
    LET rows == SelectSeq(generators_raw, LAMBDA row : row.region = r)
    IN Distinct([i \in DOMAIN rows |-> rows[i].generator_name])

RECURSIVE BuildInterconnectors(_)
\* Lines 46-59: the nested ordered dict id -> region_start -> region_end -> capacity.
BuildInterconnectors(rows) ==
    IF Len(rows) = 0 THEN <<>>
    ELSE LET d      == BuildInterconnectors(SubSeq(rows, 1, Len(rows) - 1))
             row    == rows[Len(rows)]
             id     == row.interconnector_id
             d1     == IF DictHas(d, id) THEN d ELSE DictPut(d, id, <<>>)
             byStart == DictGet(d1, id)
             byStart1 == IF DictHas(byStart, row.region_start) THEN byStart
                         ELSE DictPut(byStart, row.region_start, <<>>)
             byEnd  == DictPut(DictGet(byStart1, row.region_start),
                               row.region_end, row.interconnector_capacity)
         IN DictPut(d1, id, DictPut(byStart1, row.region_start, byEnd))

\* Lines 81-85, 123-124, 149-150: the endpoints and capacity read back by
\* "first key" access.
ic_region_start(ic, id) == FirstKey(DictGet(ic, id))
ic_region_end(ic, id) == FirstKey(DictGet(DictGet(ic, id), ic_region_start(ic, id)))
ic_capacity(ic, id) ==
    DictGet(DictGet(DictGet(ic, id), ic_region_start(ic, id)), ic_region_end(ic, id))

\* Lines 62-69: bids[region][gen][price_band] = bid_capacity for the bid rows
\* of each generator of each listed region; bands without a row get no key.
\* rs are the regions the loop has entered; one of them without a generator
\* row has got its empty dict at line 64 and no more.
BuildBids(gens, rs) ==
    [r \in rs |->
        [g \in (IF r \in DOMAIN gens THEN DOMAIN gens[r] ELSE {}) |->
            [p \in {bids_raw[i].pricelevel :
                      i \in {j \in DOMAIN bids_raw : bids_raw[j].generator_name = g}} |->
                LET last == CHOOSE i \in DOMAIN bids_raw :
                               /\ bids_raw[i].generator_name = g
                               /\ bids_raw[i].pricelevel = p
                               /\ \A j \in DOMAIN bids_raw :
                                    (bids_raw[j].generator_name = g
                                     /\ bids_raw[j].pricelevel = p) => j <= i
                IN bids_raw[last].bid_capacity]]]

-----------------------------------------------------------------------------
(* The linear program.  A decision variable gen_dispatch[r, g, p] is the    *)
(* triple <<r, g, p>>; a flow variable is its interconnector id.  A         *)
(* constraint is  sum coefD[v]*v + sum coefF[id]*flow[id]  (sense)  rhs.    *)

\* Lines 73-75: one variable per (r, g, p), lowBound = 0.
DispatchVars(gens) ==
    UNION {{<<r, g, p>> : g \in DOMAIN gens[r], p \in Range(price_bands)} :
             r \in Range(regions)}

\* Lines 78-91: one flow variable per interconnector id, bounded by +-capacity.
FlowVars(ic) ==
    [id \in Range(DictKeys(ic)) |->
        [lowBound |-> 0 - ic_capacity(ic, id), upBound |-> ic_capacity(ic, id)]]

\* Lines 95-100: each dispatch variable costs its price band.
Objective(gens) == [v \in DispatchVars(gens) |-> v[3]]

\* A bid constraint bounded by the nameplate capacity instead of the bid.
BidCapByNameplate(r, g, p) ==
    [kind |-> "bid", region |-> r, coefD |-> (<<r, g, p>> :> 1), coefF |-> EmptyMap,
     sense |-> "<=", rhs |-> generators[r][g]]

\* Line 107: gen_dispatch[r, g, p] <= bids[r][g][p]
BidCapConstraint(r, g, p) ==
    [kind |-> "bid", region |-> r, coefD |-> (<<r, g, p>> :> 1), coefF |-> EmptyMap,
     sense |-> "<=", rhs |-> bids[r][g][p]]

\* Line 109: lpSum(gen_dispatch[r, g, p] for p in price_bands) <= generators[r][g]
NameplateConstraint(r, g) ==
    [kind |-> "nameplate", region |-> r,
     coefD |-> [v \in {<<r, g, p>> : p \in Range(price_bands)} |-> 1],
     coefF |-> EmptyMap, sense |-> "<=", rhs |-> generators[r][g]]

\* Lines 120-130: -flow if the region is the interconnector's region_start,
\* else +flow if it is its region_end.
NetFlowCoef(region) ==
    LET ic == interconnector_capacities
        touching == {id \in Range(DictKeys(ic)) :
                       region = ic_region_start(ic, id) \/ region = ic_region_end(ic, id)}
    IN [id \in touching |->
          IF region = ic_region_start(ic, id) THEN 0 - 1 ELSE 1]

\* Lines 113-133: generation + net flow == demand[region]
BalanceConstraint(region) ==
    [kind |-> "balance", region |-> region,
     coefD |-> [v \in {w \in DispatchVars(generators) : w[1] = region} |-> 1],
     coefF |-> NetFlowCoef(region), sense |-> "==", rhs |-> demand[region]]

\* Lines 104-109 in execution order: per region, per generator, one step per
\* price band and then the nameplate step.
CapacitySteps ==
    Concat([i \in DOMAIN regions |->
        LET r == regions[i] order == GenOrder(r) IN
        Concat([j \in DOMAIN order |->
            [k \in DOMAIN price_bands |->
                [kind |-> "bid", r |-> r, g |-> order[j], p |-> price_bands[k]]]
            \o <<[kind |-> "nameplate", r |-> r, g |-> order[j], p |-> 0]>>])])

\* bids[r][g][p] raises KeyError when the generator has no bid row at band p.
StepRaises(st) == st.kind = "bid" /\ st.p \notin DOMAIN bids[st.r][st.g]

StepConstraint(st) ==
    IF st.kind = "bid" THEN BidCapConstraint(st.r, st.g, st.p)
    ELSE NameplateConstraint(st.r, st.g)

-----------------------------------------------------------------------------
(* The solver, by what it returns.                                          *)

\* Upper end of a dispatch variable's range: the least right-hand side among
\* the constraints that bound it alone, else the largest right-hand side.
DispatchUpper(m, v) ==
    LET own == {m.constraints[i].rhs : i \in
                  {j \in DOMAIN m.constraints :
                     /\ DOMAIN m.constraints[j].coefD = {v}
                     /\ DOMAIN m.constraints[j].coefF = {}
                     /\ m.constraints[j].sense = "<="}}
        all == {m.constraints[i].rhs : i \in DOMAIN m.constraints} \cup {0}
    IN IF own # {} THEN CHOOSE x \in own : \A y \in own : x <= y
       ELSE CHOOSE x \in all : \A y \in all : y <= x

RECURSIVE Boxes(_, _, _)
\* All functions on the finite set S with f[x] \in lo[x]..hi[x].
Boxes(S, lo, hi) ==
    IF S = {} THEN {EmptyMap}
    ELSE LET x == CHOOSE y \in S : TRUE
         IN {f @@ (x :> n) : f \in Boxes(S \ {x}, lo, hi), n \in lo[x]..hi[x]}

\* model.variables(): the flow variables that occur in some constraint (the
\* objective holds dispatch variables only).
ProblemFlows(m) == UNION {DOMAIN m.constraints[i].coefF : i \in DOMAIN m.constraints}

\* The flow values after a solve: a number for a variable of the problem, None
\* for a flow variable the problem does not contain.
FlowValues(m, f) ==
    [id \in DOMAIN m.flows |-> IF id \in ProblemFlows(m) THEN Num(f[id]) ELSE PyNone]

\* The points within the variables' own bounds.
Points(m) ==
    LET pf == ProblemFlows(m)
        ds == Boxes(m.variables, [v \in m.variables |-> 0],
                    [v \in m.variables |-> DispatchUpper(m, v)])
        fs == Boxes(pf, [id \in pf |-> m.flows[id].lowBound],
                    [id \in pf |-> m.flows[id].upBound])
    IN {[d |-> d, f |-> FlowValues(m, f)] : d \in ds, f \in fs}

Lhs(c, a) ==
    SumOver(DOMAIN c.coefD, [v \in DOMAIN c.coefD |-> c.coefD[v] * a.d[v]])
      + SumOver(DOMAIN c.coefF, [id \in DOMAIN c.coefF |-> c.coefF[id] * a.f[id][1]])

Satisfies(c, a) ==
    IF c.sense = "<=" THEN Lhs(c, a) <= c.rhs ELSE Lhs(c, a) = c.rhs

Feasible(m) ==
    {a \in Points(m) : \A i \in DOMAIN m.constraints : Satisfies(m.constraints[i], a)}

\* pulp.value(model.objective): the objective at the variables' values.
ObjectiveValue(m, a) ==
    SumOver(DOMAIN m.objective, [v \in DOMAIN m.objective |-> m.objective[v] * a.d[v]])

Optimal(m) ==
    LET F == Feasible(m)
    IN {a \in F : \A b \in F : ObjectiveValue(m, a) <= ObjectiveValue(m, b)}

\* Values left in the variables when no feasible point exists: the solver
\* reports some point of the variables' bounds that breaks a constraint.
Leftover(m) ==
    {[d |-> [v \in m.variables |-> 0],
      f |-> FlowValues(m, [id \in DOMAIN m.flows |-> m.flows[id].lowBound])],
     [d |-> [v \in m.variables |-> 0],
      f |-> FlowValues(m, [id \in DOMAIN m.flows |-> m.flows[id].upBound])]}

-----------------------------------------------------------------------------
(* The input tables a run starts from.                                      *)

GenRow(r, g, c) == [region |-> r, generator_name |-> g, nameplate_capacity |-> c]
BidRow(g, p, b) == [generator_name |-> g, pricelevel |-> p, bid_capacity |-> b]
DemandRow(r, d) == [region |-> r, demand |-> d]
IcRow(id, s, e, c) ==
    [interconnector_id |-> id, region_start |-> s, region_end |-> e,
     interconnector_capacity |-> c]

\* A generator's row, or no row for it.
GenOption(g, rs) == {<<>>} \cup {<<GenRow(r, g, c)>> : r \in rs, c \in 0..MaxCap}
\* A generator's bid row at one band, or none.
BidOption(g, p) == {<<>>} \cup {<<BidRow(g, p, b)>> : b \in 0..MaxCap}
IcOption(id) ==
    {<<>>} \cup {<<IcRow(id, s, e, c)>> :
                   s \in RegionNames, e \in RegionNames, c \in 0..MaxFlowCap}

\* R1 is always listed; R2 may be missing from the demand table.
DemandTables ==
    {<<DemandRow("R1", d1)>> \o t :
        d1 \in 0..MaxDemand,
        t \in {<<>>} \cup {<<DemandRow("R2", d2)>> : d2 \in 0..MaxDemand}}

BidTables ==
    {b11 \o b12 \o b21 \o b22 :
        b11 \in BidOption("G1", PriceLevels[1]), b12 \in BidOption("G1", PriceLevels[2]),
        b21 \in BidOption("G2", PriceLevels[1]), b22 \in BidOption("G2", PriceLevels[2])}

\* Every generator row bids its whole capacity at the first band and 0 at the
\* second.
FullBids(gens) ==
    Concat([i \in DOMAIN gens |->
        <<BidRow(gens[i].generator_name, PriceLevels[1], gens[i].nameplate_capacity),
          BidRow(gens[i].generator_name, PriceLevels[2], 0)>>])

Fresh ==
    /\ pricelevel_raw = PriceLevels
    /\ pc = "start"
    /\ model = NoModel
    /\ generators = EmptyMap
    /\ interconnector_capacities = <<>>
    /\ bids = EmptyMap
    /\ status = "Not Solved"
    /\ values = NoValues
    /\ results = EmptyMap
    /\ error = NoError
    /\ solverCalls = 0

\* Inputs varying the generator and bid tables; no interconnector.
InitBids ==
    /\ region_demand_raw \in DemandTables
    /\ generators_raw \in {g1 \o g2 : g1 \in GenOption("G1", {"R1"}),
                                      g2 \in GenOption("G2", RegionNames)}
    /\ bids_raw \in BidTables
    /\ interconnector_raw = <<>>
    /\ Fresh

\* Inputs varying the demand and the interconnector table; every generator
\* bids at every band.
InitNetwork ==
    /\ region_demand_raw \in DemandTables
    /\ generators_raw \in {g1 \o g2 : g1 \in GenOption("G1", {"R1"}),
                                      g2 \in GenOption("G2", RegionNames)}
    /\ bids_raw = FullBids(generators_raw)
    /\ interconnector_raw \in {i1 \o i2 : i1 \in IcOption("I1"), i2 \in IcOption("I2")}
    /\ Fresh

Init == InitBids \/ InitNetwork

-----------------------------------------------------------------------------
(* solve_electricity_market, block by block.                                *)

\* Line 11: the problem object is created first.
CreateProblem ==
    /\ pc = "start"
    /\ model' = EmptyProblem
    /\ pc' = "reading"
    /\ UNCHANGED <<inputs, generators, interconnector_capacities, bids, status,
                   values, results, error, solverCalls>>

\* A validation whose result is ignored: the call goes on whatever it returns.
ValidateIgnoringResult ==
    /\ pc = "reading"
    /\ pc' = "validated"
    /\ UNCHANGED <<inputs, model, generators, interconnector_capacities, bids,
                   status, values, results, error, solverCalls>>

\* Lines 14-23: read the tables, validate the bids, raise on failure.
Validate ==
    /\ pc = "reading"
    /\ IF ~validate_bids_against_capacity(generators_raw, bids_raw)
       THEN pc' = "raised" /\ error' = ValueErrorBids
       ELSE pc' = "validated" /\ error' = error
    /\ UNCHANGED <<inputs, model, generators, interconnector_capacities, bids,
                   status, values, results, solverCalls>>

\* Lines 25-69: the lookup dicts.  generators[region] at line 65 raises
\* KeyError for a listed region with no generator row; bids then holds the
\* regions before it and the empty dict of line 64 for that region.
BuildData ==
    /\ pc = "validated"
    /\ generators' = BuildGenerators(generators_raw)
    /\ interconnector_capacities' = BuildInterconnectors(interconnector_raw)
    /\ LET bad == {i \in DOMAIN regions : regions[i] \notin DOMAIN generators'}
       IN IF bad # {}
          THEN LET first == CHOOSE i \in bad : \A j \in bad : i <= j
               IN /\ pc' = "raised"
                  /\ error' = KeyErrorRegion
                  /\ bids' = BuildBids(generators', {regions[j] : j \in 1..first})
          ELSE /\ pc' = "data"
               /\ error' = error
               /\ bids' = BuildBids(generators', Range(regions))
    /\ UNCHANGED <<inputs, model, status, values, results, solverCalls>>

\* Lines 72-133: variables, objective, constraints.  bids[r][g][p] at line 107
\* raises KeyError at the first (r, g, p) without a bid row.
BuildModel ==
    /\ pc = "data"
    /\ LET steps == CapacitySteps
           bad == {i \in DOMAIN steps : StepRaises(steps[i])}
           m0 == [model EXCEPT !.variables = DispatchVars(generators),
                               !.flows = FlowVars(interconnector_capacities),
                               !.objective = Objective(generators)]
       IN IF bad # {}
          THEN LET first == CHOOSE i \in bad : \A j \in bad : i <= j
               IN /\ model' = [m0 EXCEPT !.constraints =
                                 [i \in 1..(first - 1) |-> StepConstraint(steps[i])]]
                  /\ pc' = "raised"
                  /\ error' = KeyErrorBid
          ELSE /\ model' = [m0 EXCEPT !.constraints =
                              [i \in DOMAIN steps |-> StepConstraint(steps[i])]
                              \o [i \in DOMAIN regions |-> BalanceConstraint(regions[i])]]
               /\ pc' = "built"
               /\ error' = error
    /\ UNCHANGED <<inputs, generators, interconnector_capacities, bids, status,
                   values, results, solverCalls>>

\* A solve that may be submitted again after it has returned.
SolveWithRetry ==
    /\ pc \in {"built", "solved"}
    /\ solverCalls < 2
    /\ solverCalls' = solverCalls + 1
    /\ \/ /\ Feasible(model) # {}
          /\ status' = "Optimal"
          /\ values' \in Optimal(model)
       \/ /\ Feasible(model) = {}
          /\ status' = "Infeasible"
          /\ values' \in Leftover(model)
    /\ pc' = "solved"
    /\ UNCHANGED <<inputs, model, generators, interconnector_capacities, bids,
                   results, error>>

\* Line 137: model.solve(), once.
Solve ==
    /\ pc = "built"
    /\ solverCalls' = solverCalls + 1
    /\ \/ /\ Feasible(model) # {}
          /\ status' = "Optimal"
          /\ values' \in Optimal(model)
       \/ /\ Feasible(model) = {}
          /\ status' = "Infeasible"
          /\ values' \in Leftover(model)
    /\ pc' = "solved"
    /\ UNCHANGED <<inputs, model, generators, interconnector_capacities, bids,
                   results, error>>

\* Lines 148-151: results['interconnector_flow'][(from_region, to_region)] is
\* assigned pulp.value(flow[id]) per interconnector id, in dict order; a later
\* id with the same pair overwrites an earlier one.  The value is None for a
\* flow variable that is in no constraint.
FlowResults ==
    LET ic == interconnector_capacities
        ids == DictKeys(ic)
        key(i) == <<ic_region_start(ic, ids[i]), ic_region_end(ic, ids[i])>>
    IN [k \in {key(i) : i \in DOMAIN ids} |->
          LET last == CHOOSE i \in DOMAIN ids :
                         key(i) = k /\ \A j \in DOMAIN ids : key(j) = k => j <= i
          IN values.f[ids[last]]]

\* Lines 154-158: per generator, the sum of its dispatch values over the bands.
DispatchResults ==
    [r \in Range(regions) |->
        [g \in DOMAIN generators[r] |->
            SumSeq([k \in DOMAIN price_bands |-> values.d[<<r, g, price_bands[k]>>]])]]

\* Lines 140-160: the results dict, filled whatever the status.
Extract ==
    /\ pc = "solved"
    /\ results' = [status |-> status,
                   total_cost |-> ObjectiveValue(model, values),
                   dispatch |-> DispatchResults,
                   interconnector_flow |-> FlowResults]
    /\ pc' = "returned"
    /\ UNCHANGED <<inputs, model, generators, interconnector_capacities, bids,
                   status, values, error, solverCalls>>

Next == CreateProblem \/ Validate \/ BuildData \/ BuildModel \/ Solve \/ Extract

Spec == Init /\ [][Next]_vars

-----------------------------------------------------------------------------
(* What the claims say, stated on the input tables.                         *)

GeneratorRowNames == {generators_raw[i].generator_name : i \in DOMAIN generators_raw}

\* A generator's bid_capacity summed over all its bid rows.
BidSum(g) ==
    SumOver({j \in DOMAIN bids_raw : bids_raw[j].generator_name = g},
            [j \in DOMAIN bids_raw |-> bids_raw[j].bid_capacity])

OverSubscribed ==
    \E i \in DOMAIN generators_raw :
        BidSum(generators_raw[i].generator_name) > generators_raw[i].nameplate_capacity

UnknownBidder ==
    \E j \in DOMAIN bids_raw : bids_raw[j].generator_name \notin GeneratorRowNames

ListedRegions == {region_demand_raw[i].region : i \in DOMAIN region_demand_raw}

RegionHasGenerator(r) == \E i \in DOMAIN generators_raw : generators_raw[i].region = r

HasBidRow(g, p) ==
    \E j \in DOMAIN bids_raw :
        bids_raw[j].generator_name = g /\ bids_raw[j].pricelevel = p

\* The bid rows' capacity for (g, p).
InputBid(g, p) ==
    bids_raw[CHOOSE j \in DOMAIN bids_raw :
                bids_raw[j].generator_name = g /\ bids_raw[j].pricelevel = p].bid_capacity

\* The (generator row, band) pairs of listed regions that have no bid row.
MissingBids ==
    {<<i, k>> \in (DOMAIN generators_raw) \X (DOMAIN pricelevel_raw) :
        /\ generators_raw[i].region \in ListedRegions
        /\ ~HasBidRow(generators_raw[i].generator_name, pricelevel_raw[k])}

Past(states) == pc \in states
AfterValidation == Past({"validated", "data", "built", "solved", "returned", "raised"})
AfterBuild == Past({"built", "solved", "returned"})

\* C1: the bid validation rejects, and the call raises "Bids exceed generator
\* capacity", if and only if some generator's summed bids strictly exceed its
\* nameplate capacity or some bid row names a generator absent from the
\* generator table; every other input is accepted, including a sum equal to
\* the capacity and generators without any bid row.
C1_RejectsIffOverSubscribedOrUnknown ==
    /\ validate_bids_against_capacity(generators_raw, bids_raw)
         <=> ~(OverSubscribed \/ UnknownBidder)
    /\ AfterValidation =>
         ((error = ValueErrorBids) <=> (OverSubscribed \/ UnknownBidder))

\* C1 witness: a rejection in which every single bid row fits the capacity and
\* only the sum over the bands exceeds it.
C1_Witness ==
    /\ pc = "raised" /\ error = ValueErrorBids
    /\ ~UnknownBidder
    /\ \A j \in DOMAIN bids_raw : \A i \in DOMAIN generators_raw :
          bids_raw[j].generator_name = generators_raw[i].generator_name
            => bids_raw[j].bid_capacity <= generators_raw[i].nameplate_capacity

\* C2 as stated: after a validation error no model object exists, no variable
\* or constraint was created, the solver was never called and there is no
\* result.
C2_NoModelObjectOnRejection ==
    (pc = "raised" /\ error = ValueErrorBids) =>
        (model = NoModel /\ solverCalls = 0 /\ DOMAIN results = {})

\* C2 amended: for an input that fails the bid validation, the call never gets
\* past the raise: the problem object created at line 11 stays empty (no
\* decision variable, no objective term, no constraint), the solver is never
\* called and no result is produced.
C2_NothingBuiltOnRejection ==
    ~validate_bids_against_capacity(generators_raw, bids_raw) =>
        /\ pc \in {"start", "reading", "raised"}
        /\ pc = "raised" => error = ValueErrorBids
        /\ model \in {NoModel, EmptyProblem}
        /\ solverCalls = 0
        /\ status = "Not Solved"
        /\ DOMAIN results = {}

\* C2 witness: the validation error has been raised with the empty problem
\* object in hand.
C2_Witness ==
    pc = "raised" /\ error = ValueErrorBids /\ model = EmptyProblem

\* C3: a missing (generator, price band) bid row counts as a bid of zero: the
\* call raises no error, builds the model and reports zero dispatch at every
\* band without a bid.  (Stated for inputs that pass validation and whose
\* listed regions all have a generator row.)
C3_MissingBidIsZero ==
    (/\ validate_bids_against_capacity(generators_raw, bids_raw)
     /\ \A r \in ListedRegions : RegionHasGenerator(r)
     /\ MissingBids # {}) =>
        /\ error = NoError
        /\ Past({"solved", "returned"}) =>
             \A ik \in MissingBids :
                values.d[<<generators_raw[ik[1]].region,
                           generators_raw[ik[1]].generator_name,
                           pricelevel_raw[ik[2]]>>] = 0

\* C4: every region listed in the demand table gets exactly one balance
\* constraint, also when it has no generator row: the build does not fail for
\* such a region.
C4_BalancePerListedRegion ==
    /\ error # KeyErrorRegion
    /\ AfterBuild =>
         \A r \in ListedRegions :
            Cardinality({i \in DOMAIN model.constraints :
                           /\ model.constraints[i].kind = "balance"
                           /\ model.constraints[i].region = r}) = 1

\* The claimed coefficient of an interconnector's flow in a region's balance:
\* +1 if the region is its region_end, -1 if it is its region_start, both
\* added up.
ClaimedFlowCoef(row, r) ==
    (IF row.region_end = r THEN 1 ELSE 0) - (IF row.region_start = r THEN 1 ELSE 0)

\* The claimed contribution of an interconnector to a region's net flow, at
\* the solver's values.
ClaimedFlow(row, r) ==
    IF ClaimedFlowCoef(row, r) = 0 THEN 0
    ELSE ClaimedFlowCoef(row, r) * values.f[row.interconnector_id][1]

CoefAt(c, id) == IF id \in DOMAIN c.coefF THEN c.coefF[id] ELSE 0

\* C5: for every region and interconnector table the balance constraint is
\* generation + net_flow_into = demand with +flow for every interconnector
\* ending in the region and -flow for every one starting in it, so every
\* Optimal result satisfies that balance.
C5_BalanceSignConvention ==
    AfterBuild =>
        \A i \in DOMAIN model.constraints :
            LET c == model.constraints[i] IN
            c.kind = "balance" =>
                /\ \A j \in DOMAIN interconnector_raw :
                      CoefAt(c, interconnector_raw[j].interconnector_id)
                        = ClaimedFlowCoef(interconnector_raw[j], c.region)
                /\ (Past({"solved", "returned"}) /\ status = "Optimal") =>
                      SumOver(DOMAIN c.coefD, values.d)
                        + SumSeq([j \in DOMAIN interconnector_raw |->
                                    ClaimedFlow(interconnector_raw[j], c.region)])
                        = demand[c.region]

\* The nameplate capacities of a region's generator rows, summed.
RegionCapacity(r) ==
    SumOver({i \in DOMAIN generators_raw : generators_raw[i].region = r},
            [i \in DOMAIN generators_raw |-> generators_raw[i].nameplate_capacity])

Touches(row, r) == row.region_start = r \/ row.region_end = r

\* Some listed region has no interconnector and more demand than capacity.
StrandedRegion ==
    \E i \in DOMAIN region_demand_raw :
        LET r == region_demand_raw[i].region IN
        /\ \A j \in DOMAIN interconnector_raw : ~Touches(interconnector_raw[j], r)
        /\ region_demand_raw[i].demand > RegionCapacity(r)

\* C6: for every valid input with a region that has no interconnector and more
\* demand than its generators' summed capacity, the call returns a result of
\* status Infeasible: it neither raises nor reports Optimal.
C6_InfeasibleIsReported ==
    (validate_bids_against_capacity(generators_raw, bids_raw) /\ StrandedRegion) =>
        /\ pc # "raised"
        /\ Past({"solved", "returned"}) => status = "Infeasible"
        /\ pc = "returned" => results.status = "Infeasible"

\* C7: when the status is not Optimal the result carries no total cost and no
\* dispatch values; the status alone tells the outcome.
C7_NoValuesUnlessOptimal ==
    (pc = "returned" /\ results.status # "Optimal") =>
        ("total_cost" \notin DOMAIN results /\ "dispatch" \notin DOMAIN results)

FullyBuilt(m) ==
    /\ m.variables = DispatchVars(generators)
    /\ \A v \in m.variables : \E i \in DOMAIN m.constraints :
          m.constraints[i].kind = "bid" /\ DOMAIN m.constraints[i].coefD = {v}
    /\ \A r \in ListedRegions : \E i \in DOMAIN m.constraints :
          m.constraints[i].kind = "balance" /\ m.constraints[i].region = r

\* C8: a call is a single pass BUILT -> SUBMITTED -> one terminal status: the
\* solver is called at most once and only on the fully built model, a terminal
\* status is never left, and the result is extracted only after the solve has
\* returned.
C8_SinglePass ==
    [][ /\ solverCalls' # solverCalls =>
             /\ pc = "built" /\ FullyBuilt(model) /\ model' = model
             /\ solverCalls = 0 /\ solverCalls' = 1
             /\ pc' = "solved" /\ status' \in {"Optimal", "Infeasible", "Unbounded", "Undefined"}
        /\ status # "Not Solved" => (status' = status /\ values' = values /\ model' = model)
        /\ results' # results =>
             (pc = "solved" /\ solverCalls = 1 /\ pc' = "returned"
              /\ results'.status = status)
        /\ pc \in {"returned", "raised"} => pc' = pc
      ]_vars

\* C8 witness: a call that went through the solver once and returned.
C8_Witness ==
    pc = "returned" /\ solverCalls = 1 /\ results.status = "Infeasible"

\* C9: in every Optimal result each generator's reported dispatch total is at
\* least 0 and at most its nameplate capacity, and no single-band dispatch
\* exceeds the bid capacity of that (generator, price band).
C9_DispatchWithinCapacityAndBids ==
    (pc = "returned" /\ results.status = "Optimal") =>
        \A i \in DOMAIN generators_raw :
            LET r == generators_raw[i].region
                g == generators_raw[i].generator_name
            IN r \in ListedRegions =>
                 /\ 0 <= results.dispatch[r][g]
                 /\ results.dispatch[r][g] <= generators_raw[i].nameplate_capacity
                 /\ \A k \in DOMAIN pricelevel_raw :
                       values.d[<<r, g, pricelevel_raw[k]>>]
                         <= InputBid(g, pricelevel_raw[k])

\* C9 witness: an Optimal result that dispatches a generator to its full,
\* positive nameplate capacity.
C9_Witness ==
    /\ pc = "returned" /\ results.status = "Optimal"
    /\ \E i \in DOMAIN generators_raw :
          /\ generators_raw[i].region \in ListedRegions
          /\ generators_raw[i].nameplate_capacity > 0
          /\ results.dispatch[generators_raw[i].region][generators_raw[i].generator_name]
               = generators_raw[i].nameplate_capacity

\* C10: the result's flow mapping holds one entry per interconnector row, valued
\* with that interconnector's own flow variable and within +-capacity, also
\* when two interconnectors connect the same (region_start, region_end) pair.
C10_FlowPerInterconnector ==
    pc = "returned" =>
        /\ Cardinality(DOMAIN results.interconnector_flow) = Len(interconnector_raw)
        /\ \A j \in DOMAIN interconnector_raw :
              LET row == interconnector_raw[j]
                  key == <<row.region_start, row.region_end>>
              IN /\ key \in DOMAIN results.interconnector_flow
                 /\ results.interconnector_flow[key] = values.f[row.interconnector_id]
                 /\ results.interconnector_flow[key] # PyNone
                 /\ 0 - row.interconnector_capacity <= results.interconnector_flow[key][1]
                 /\ results.interconnector_flow[key][1] <= row.interconnector_capacity

-----------------------------------------------------------------------------
(* Supporting facts: where the refuted statements do hold.                  *)

NoSelfLoop ==
    \A j \in DOMAIN interconnector_raw :
        interconnector_raw[j].region_start # interconnector_raw[j].region_end

\* Supporting fact for C5: the claimed balance holds for every table in which
\* no interconnector starts and ends in the same region.
C5_HoldsWithoutSelfLoops == NoSelfLoop => C5_BalanceSignConvention

\* Supporting fact for C6: the Infeasible status is reported whenever the build
\* gets through, that is when every listed region has a generator row and
\* every such generator a bid row at every band.
C6_HoldsWhenBuildSucceeds ==
    (MissingBids = {} /\ \A r \in ListedRegions : RegionHasGenerator(r))
        => C6_InfeasibleIsReported

\* Supporting fact for C10: every interconnector's flow is reported, as a
\* number within its capacity, when no two rows share their (region_start,
\* region_end) pair and every row touches a listed region.
C10_HoldsWithoutParallelLinks ==
    (/\ \A i, j \in DOMAIN interconnector_raw :
           i # j => <<interconnector_raw[i].region_start, interconnector_raw[i].region_end>>
                      # <<interconnector_raw[j].region_start, interconnector_raw[j].region_end>>
     /\ \A j \in DOMAIN interconnector_raw :
           \E r \in ListedRegions : Touches(interconnector_raw[j], r))
        => C10_FlowPerInterconnector

====
